---- MODULE Spec2Model ----
(***************************************************************************)
(* A model of the LINE webhook service: the in-memory MessageStore         *)
(* (per-conversation history with FIFO truncation, TTL expiry and capacity *)
(* eviction), signature verification, and the webhook batch handler.       *)
(*                                                                         *)
(* A JavaScript Map keeps its keys in insertion order, and cleanup relies  *)
(* on that order, so `history` is a sequence of buckets, first inserted    *)
(* first.  Date.now() is the variable `now`; it never runs backwards.      *)
(***************************************************************************)
EXTENDS Integers, Sequences, FiniteSets, TLC

\* ------------------------------------------------------------------ bounds
\* Store operations (add / getRecent) in one behaviour of SpecStore.
MaxOps == 5
\* Clock advances in one behaviour.
MaxTicks == 2
\* How many times SpecVerify calls verifySignature on its input.
MaxCalls == 2

\* conversationTtlMinutes * 60_000 (LineWebhookService constructor).
MsPerMinute == 60000

\* Conversation ids as buildConversationId makes them.
Conversations == {"group:g1", "room:r1", "user:u1"}

\* The workloads of SpecStore: a configuration (HISTORY_LIMIT,
\* CONVERSATION_TTL_MINUTES, MAX_CONVERSATIONS: non-negative integers, 0
\* switching the TTL or the cap off) with the conversations and message texts
\* the store is fed under it, and the `limit` arguments getRecent is called with.
StoreWorkloads ==
    { [limit |-> 2, ttlMinutes |-> 1, cap |-> 0,
       convs |-> {"user:u1"}, texts |-> {<<"a">>, <<"b">>}, reads |-> {1, 2}],
      [limit |-> 1, ttlMinutes |-> 1, cap |-> 2,
       convs |-> Conversations, texts |-> {<<"a">>}, reads |-> {1}],
      [limit |-> 1, ttlMinutes |-> 0, cap |-> 1,
       convs |-> {"group:g1", "user:u1"}, texts |-> {<<"a">>}, reads |-> {1}],
      [limit |-> 1, ttlMinutes |-> 0, cap |-> 0,
       convs |-> {"group:g1", "user:u1"}, texts |-> {<<"a">>}, reads |-> {1}] }

\* Clock steps: half a minute, and one millisecond more than a minute.
TickSteps == {MsPerMinute \div 2, MsPerMinute + 1}

VARIABLES
    limit,              \* MessageStore.limit
    ttlMs,              \* MessageStore.ttlMs
    maxConversations,   \* MessageStore.maxConversations
    history,            \* MessageStore.history: buckets in Map insertion order
    now,                \* Date.now()
    ret,                \* what the last getRecent returned
    lastOp,             \* observer: the last store operation and what its cleanup evicted
    log,                \* observer: the last limit+1 entries added, per conversation
    born,               \* observer: how many of log[c] were added to c's present bucket
    touch,              \* observer: conversations by last touch, least recent first
    feed,               \* environment: the conversations and texts in use, the TTL as configured
    ops,                \* observer: store operations so far
    ticks,              \* observer: clock advances so far
    summaryLimit,       \* LineWebhookService.summaryLimit
    req,                \* the webhook deliveries: where each one stands
    trace               \* observer: what each delivery did, in order

configVars == <<limit, ttlMs, maxConversations, summaryLimit, feed>>
storeVars == <<history, log, born, touch>>
serviceVars == <<req, trace>>

vars == <<limit, ttlMs, maxConversations, history, now, ret, lastOp, log, born,
          touch, feed, ops, ticks, summaryLimit, req, trace>>

\* ------------------------------------------------------------ Map helpers
Min(a, b) == IF a < b THEN a ELSE b
Max(a, b) == IF a > b THEN a ELSE b

Keys(h) == {h[i].key : i \in 1..Len(h)}

\* Map.prototype.get
MapGet(h, k) == LET i == CHOOSE i \in 1..Len(h) : h[i].key = k IN h[i]

\* Map.prototype.delete
MapDelete(h, k) == SelectSeq(h, LAMBDA b : b.key # k)

\* Map.prototype.set: an existing key keeps its place, a new key goes last.
MapSet(h, k, items, lastSeen) ==
    LET b == [key |-> k, items |-> items, lastSeen |-> lastSeen]
    IN  IF k \in Keys(h)
        THEN [i \in 1..Len(h) |-> IF h[i].key = k THEN b ELSE h[i]]
        ELSE Append(h, b)

\* Array.prototype.splice(0, deleteCount): deleteCount is clamped to [0, length].
SpliceFront(items, deleteCount) ==
    LET d == Min(Max(deleteCount, 0), Len(items))
    IN  SubSeq(items, d + 1, Len(items))

\* Array.prototype.slice(start) for 0 <= start.
SliceFrom(items, start) == SubSeq(items, Min(start, Len(items)) + 1, Len(items))

\* --------------------------------------------------------------- cleanup
\* Mutant: the first loop stops after the first bucket it deletes.
cleanupTtlFirstOnly(h, t, ttl) ==
    LET expired == {i \in 1..Len(h) : t - h[i].lastSeen > ttl}
    IN  IF ttl > 0 /\ expired # {}
        THEN LET first == CHOOSE i \in expired : \A j \in expired : i <= j
             IN  SubSeq(h, 1, first - 1) \o SubSeq(h, first + 1, Len(h))
        ELSE h

\* Mutant: the first loop runs also when ttlMs is 0.
cleanupTtlUnguarded(h, t, ttl) == SelectSeq(h, LAMBDA b : ~(t - b.lastSeen > ttl))

\* cleanup, first loop: drop every bucket idle for more than ttlMs.
cleanupTtl(h, t, ttl) ==
    IF ttl > 0 THEN SelectSeq(h, LAMBDA b : ~(t - b.lastSeen > ttl)) ELSE h

\* cleanup, second loop: while over the cap, drop the first key of the Map.
RECURSIVE cleanupCap(_, _)
cleanupCap(h, cap) ==
    IF cap > 0 /\ Len(h) > cap THEN cleanupCap(Tail(h), cap) ELSE h

\* What the second loop deletes, in order, each with the buckets present then.
RECURSIVE capVictims(_, _)
capVictims(h, cap) ==
    IF cap > 0 /\ Len(h) > cap
    THEN <<[victim |-> [key |-> h[1].key, lastSeen |-> h[1].lastSeen],
            present |-> {[key |-> h[i].key, lastSeen |-> h[i].lastSeen] :
                            i \in 1..Len(h)}]>>
         \o capVictims(Tail(h), cap)
    ELSE <<>>

\* Mutant: cleanup runs its TTL loop only, never the capacity loop.
cleanupWithoutCap(h, t, ttl, cap) == cleanupTtl(h, t, ttl)

\* MessageStore.cleanup: the TTL loop, then the capacity loop.
cleanup(h, t, ttl, cap) == cleanupCap(cleanupTtl(h, t, ttl), cap)

\* ------------------------------------------------------------ MessageStore
\* Mutant: add truncates at the wrong end and keeps the oldest entries.
addKeepsOldest(h, t, lim, ttl, cap, conversationId, entry) ==
    LET h1 == cleanup(h, t, ttl, cap)
        old == IF conversationId \in Keys(h1)
               THEN MapGet(h1, conversationId).items ELSE <<>>
        pushed == Append(old, entry)
        items == IF Len(pushed) > lim THEN SubSeq(pushed, 1, lim) ELSE pushed
    IN  MapSet(MapDelete(h1, conversationId), conversationId, items, t)

\* Mutant: add is not atomic; it writes back a bucket built from a snapshot taken
\* before another add to the same conversation, whose entry is lost.
addFromStaleSnapshot(h, t, lim, ttl, cap, conversationId, entry) ==
    LET h1 == cleanup(h, t, ttl, cap)
        old == IF conversationId \in Keys(h1)
               THEN MapGet(h1, conversationId).items ELSE <<>>
        seen == IF Len(old) > 0 THEN SubSeq(old, 1, Len(old) - 1) ELSE old
        pushed == Append(seen, entry)
        items == IF Len(pushed) > lim
                 THEN SpliceFront(pushed, Len(pushed) - lim) ELSE pushed
    IN  MapSet(MapDelete(h1, conversationId), conversationId, items, t)

\* MessageStore.add: the Map after the call.
add(h, t, lim, ttl, cap, conversationId, entry) ==
    LET h1 == cleanup(h, t, ttl, cap)
        old == IF conversationId \in Keys(h1)
               THEN MapGet(h1, conversationId).items ELSE <<>>
        pushed == Append(old, entry)
        items == IF Len(pushed) > lim
                 THEN SpliceFront(pushed, Len(pushed) - lim) ELSE pushed
    IN  MapSet(MapDelete(h1, conversationId), conversationId, items, t)

\* Mutant: getRecent updates lastSeen in place, without delete-and-set.
getRecentMapNoReinsert(h, t, ttl, cap, conversationId) ==
    LET h1 == cleanup(h, t, ttl, cap)
    IN  IF conversationId \notin Keys(h1) THEN h1
        ELSE MapSet(h1, conversationId, MapGet(h1, conversationId).items, t)

\* Mutant: getRecent re-inserts the bucket but leaves its lastSeen as it was.
getRecentMapKeepsLastSeen(h, t, ttl, cap, conversationId) ==
    LET h1 == cleanup(h, t, ttl, cap)
    IN  IF conversationId \notin Keys(h1) THEN h1
        ELSE MapSet(MapDelete(h1, conversationId), conversationId,
                    MapGet(h1, conversationId).items,
                    MapGet(h1, conversationId).lastSeen)

\* MessageStore.getRecent: the Map after the call.
getRecentMap(h, t, ttl, cap, conversationId) ==
    LET h1 == cleanup(h, t, ttl, cap)
    IN  IF conversationId \notin Keys(h1) THEN h1
        ELSE MapSet(MapDelete(h1, conversationId), conversationId,
                    MapGet(h1, conversationId).items, t)

\* Mutant: getRecent returns the first n entries instead of the last n.
getRecentResultFromFront(h, t, ttl, cap, conversationId, n) ==
    LET h1 == cleanup(h, t, ttl, cap)
    IN  IF conversationId \notin Keys(h1) THEN <<>>
        ELSE LET items == MapGet(h1, conversationId).items
             IN  IF Len(items) <= n THEN items ELSE SubSeq(items, 1, n)

\* Mutant: getRecent looks the bucket up without running cleanup first.
getRecentResultNoCleanup(h, t, ttl, cap, conversationId, n) ==
    IF conversationId \notin Keys(h) THEN <<>>
    ELSE LET items == MapGet(h, conversationId).items
         IN  IF Len(items) <= n THEN items
             ELSE SliceFrom(items, Len(items) - n)

\* MessageStore.getRecent: the array it returns.
getRecentResult(h, t, ttl, cap, conversationId, n) ==
    LET h1 == cleanup(h, t, ttl, cap)
    IN  IF conversationId \notin Keys(h1) THEN <<>>
        ELSE LET items == MapGet(h1, conversationId).items
             IN  IF Len(items) <= n THEN items
                 ELSE SliceFrom(items, Len(items) - n)

\* The constructor's conversion of CONVERSATION_TTL_MINUTES.
TtlMsOf(conversationTtlMinutes) ==
    IF conversationTtlMinutes > 0 THEN conversationTtlMinutes * MsPerMinute ELSE 0

\* --------------------------------------------------------------- observers
\* The last n elements of s (all of s when it is shorter).
LastN(s, n) == SubSeq(s, Len(s) - Min(n, Len(s)) + 1, Len(s))

\* Record a touch of c at time t: c becomes the most recently touched.
Touched(order, c, t, kind) ==
    SelectSeq(order, LAMBDA x : x.conv # c) \o <<[conv |-> c, at |-> t, by |-> kind]>>

\* When c was last touched (added to, or read while present); -1 if never.
TouchedAt(order, c) ==
    IF \E i \in 1..Len(order) : order[i].conv = c
    THEN order[CHOOSE i \in 1..Len(order) : order[i].conv = c].at
    ELSE -1

\* c's place in the touch order (1 = least recently touched); 0 if never touched.
Rank(order, c) ==
    IF \E i \in 1..Len(order) : order[i].conv = c
    THEN CHOOSE i \in 1..Len(order) : order[i].conv = c
    ELSE 0

\* The TTL as the configuration states it, in milliseconds.
ConfiguredTtl == feed.ttlMinutes * MsPerMinute

\* c was touched before, and more than the configured TTL ago.
Stale(order, c) ==
    /\ feed.ttlMinutes > 0
    /\ TouchedAt(order, c) >= 0
    /\ now - TouchedAt(order, c) > ConfiguredTtl

\* JavaScript's undefined, for a name and for a string of characters.
Undefined == "<undefined>"
UndefinedText == <<"<undefined>">>

NoEntry == [userId |-> Undefined, text |-> <<>>, timestamp |-> 0]

\* The store with its observers, as one value: S.history is the Map.
StoreView == [history |-> history, log |-> log, born |-> born, touch |-> touch]

SetStore(S) ==
    /\ history' = S.history
    /\ log' = S.log
    /\ born' = S.born
    /\ touch' = S.touch

\* store.add(c, e) at time now, on S.
AddTo(S, c, e) ==
    LET fresh == c \notin Keys(cleanup(S.history, now, ttlMs, maxConversations))
    IN  [history |-> add(S.history, now, limit, ttlMs, maxConversations, c, e),
         log |-> [S.log EXCEPT ![c] = LastN(Append(@, e), limit + 1)],
         born |-> [S.born EXCEPT ![c] = Min((IF fresh THEN 0 ELSE @) + 1, limit + 1)],
         touch |-> Touched(S.touch, c, now, "add")]

\* store.getRecent(c, _) at time now, on S: the store afterwards.
ReadFrom(S, c) ==
    LET h == getRecentMap(S.history, now, ttlMs, maxConversations, c)
    IN  [S EXCEPT !.history = h,
                  !.touch = IF c \in Keys(h) THEN Touched(@, c, now, "getRecent") ELSE @]

\* store.getRecent(c, n) at time now, on S: the array returned.
ReadResult(S, c, n) ==
    getRecentResult(S.history, now, ttlMs, maxConversations, c, n)

OpRecord(S, kind, c, n, e) ==
    [kind |-> kind, conv |-> c, n |-> n, entry |-> e, at |-> now,
     stale |-> Stale(S.touch, c), touchBefore |-> S.touch,
     evicted |-> capVictims(cleanupTtl(S.history, now, ttlMs), maxConversations)]

NoOp == [kind |-> "none", conv |-> "", n |-> 0, entry |-> NoEntry, at |-> 0,
         stale |-> FALSE, touchBefore |-> <<>>, evicted |-> <<>>]

\* ------------------------------------------------------------ store actions
Deliveries == {1, 2}

IdleRequest ==
    [pc |-> "idle", body |-> 0, signature |-> UndefinedText, events |-> <<>>, idx |-> 0,
     status |-> 0, pending |-> {}]

StoreInit ==
    /\ \E w \in StoreWorkloads :
          /\ limit = w.limit
          /\ ttlMs = TtlMsOf(w.ttlMinutes)
          /\ maxConversations = w.cap
          /\ feed = [convs |-> w.convs, texts |-> w.texts, reads |-> w.reads,
                     ttlMinutes |-> w.ttlMinutes]
    /\ summaryLimit = 0
    /\ history = <<>>
    /\ now = 0
    /\ ret = <<>>
    /\ lastOp = NoOp
    /\ log = [c \in Conversations |-> <<>>]
    /\ born = [c \in Conversations |-> 0]
    /\ touch = <<>>
    /\ ops = 0
    /\ ticks = 0
    /\ req = [d \in Deliveries |-> IdleRequest]
    /\ trace = [d \in Deliveries |-> <<>>]

\* store.add(c, e) called at time now.
StoreAdd(c, e) ==
    /\ ops < MaxOps
    /\ SetStore(AddTo(StoreView, c, e))
    /\ lastOp' = OpRecord(StoreView, "add", c, 0, e)
    /\ ret' = <<>>
    /\ ops' = ops + 1
    /\ UNCHANGED <<configVars, serviceVars, now, ticks>>

\* store.getRecent(c, n) called at time now.
StoreGetRecent(c, n) ==
    /\ ops < MaxOps
    /\ SetStore(ReadFrom(StoreView, c))
    /\ ret' = ReadResult(StoreView, c, n)
    /\ lastOp' = OpRecord(StoreView, "getRecent", c, n, NoEntry)
    /\ ops' = ops + 1
    /\ UNCHANGED <<configVars, serviceVars, now, ticks>>

\* Time passes.
Tick(d) ==
    /\ ticks < MaxTicks
    /\ now' = now + d
    /\ ticks' = ticks + 1
    /\ UNCHANGED <<configVars, storeVars, serviceVars, ret, lastOp, ops>>

StoreNext ==
    \/ \E c \in feed.convs, t \in feed.texts :
          StoreAdd(c, [userId |-> "u1", text |-> t, timestamp |-> 0])
    \/ \E c \in feed.convs, n \in feed.reads : StoreGetRecent(c, n)
    \/ \E d \in TickSteps : Tick(d)

SpecStore == StoreInit /\ [][StoreNext]_vars

\* ================================================================== text
\* A string is a sequence of characters (one-character strings; a fixed literal
\* of the program may stand as one element).
UpperCase == <<"A","B","C","D","E","F","G","H","I","J","K","L","M",
               "N","O","P","Q","R","S","T","U","V","W","X","Y","Z">>
LowerCase == <<"a","b","c","d","e","f","g","h","i","j","k","l","m",
               "n","o","p","q","r","s","t","u","v","w","x","y","z">>
Digits == {"0","1","2","3","4","5","6","7","8","9"}

ToLower(ch) ==
    IF \E i \in 1..Len(UpperCase) : UpperCase[i] = ch
    THEN LowerCase[CHOOSE i \in 1..Len(UpperCase) : UpperCase[i] = ch]
    ELSE ch

\* \w and \s of a JavaScript regular expression.
IsWordChar(ch) ==
    \/ \E i \in 1..Len(LowerCase) : LowerCase[i] = ch \/ UpperCase[i] = ch
    \/ ch \in Digits \cup {"_"}
IsSpace(ch) == ch \in {" ", "\t", "\n"}

\* String.prototype.trim
RECURSIVE TrimStart(_)
TrimStart(str) ==
    IF str # <<>> /\ IsSpace(Head(str)) THEN TrimStart(Tail(str)) ELSE str
RECURSIVE TrimEnd(_)
TrimEnd(str) ==
    IF str # <<>> /\ IsSpace(str[Len(str)])
    THEN TrimEnd(SubSeq(str, 1, Len(str) - 1)) ELSE str
Trim(str) == TrimEnd(TrimStart(str))

\* /^lit/i
StartsWithIgnoreCase(str, lit) ==
    /\ Len(str) >= Len(lit)
    /\ \A i \in 1..Len(lit) : ToLower(str[i]) = ToLower(lit[i])

\* \b between str[k] and str[k+1].
WordBoundaryAfter(str, k) ==
    (k >= 1 /\ k <= Len(str) /\ IsWordChar(str[k]))
        # (k + 1 <= Len(str) /\ IsWordChar(str[k + 1]))

\* /^lit\b/i
MatchesWord(str, lit) ==
    StartsWithIgnoreCase(str, lit) /\ WordBoundaryAfter(str, Len(lit))

\* /^lit(\s|$)/i
MatchesThenSpaceOrEnd(str, lit) ==
    /\ StartsWithIgnoreCase(str, lit)
    /\ (Len(str) = Len(lit) \/ IsSpace(str[Len(lit) + 1]))

SummaryCommand == <<"/","s","u","m","m","a","r","y">>
HelpCommand == <<"/","h","e","l","p">>
ResearchCommand == <<"/","r","e","s","e","a","r","c","h">>
FortuneCommands == { <<"/","f","o","r","t","u","n","e">>, <<"/","d","u","a","n","g">>,
                     <<"/","th-do","th-u","th-do","th-wo","th-ngo">> }

\* The pattern tests of handleEvent, in its order; "none" when none matches.
Route(text) ==
    IF MatchesWord(text, SummaryCommand) THEN "summary"
    ELSE IF MatchesWord(text, HelpCommand) THEN "help"
    ELSE IF \E lit \in FortuneCommands : MatchesThenSpaceOrEnd(text, lit) THEN "fortune"
    ELSE IF MatchesWord(text, ResearchCommand) THEN "research"
    ELSE "none"

\* trimCommand(text, "research"): text.replace(/^\/research\s*/i, "").trim()
trimCommand(text, lit) ==
    Trim(IF StartsWithIgnoreCase(text, lit)
         THEN TrimStart(SubSeq(text, Len(lit) + 1, Len(text)))
         ELSE text)

\* formatMessages: one line per entry, `time | user | text`, oldest first.
formatMessages(messages) ==
    [i \in 1..Len(messages) |->
        [time |-> <<"iso", messages[i].timestamp>>,
         user |-> IF messages[i].userId = Undefined THEN "unknown"
                  ELSE messages[i].userId,
         text |-> messages[i].text]]

\* buildConversationId
buildConversationId(event) ==
    IF event.source.groupId # Undefined THEN "group:" \o event.source.groupId
    ELSE IF event.source.roomId # Undefined THEN "room:" \o event.source.roomId
    ELSE IF event.source.userId # Undefined THEN "user:" \o event.source.userId
    ELSE "unknown"

\* The fixed texts of the program.
HELP_TEXT == <<"HELP_TEXT">>
FortunePrefix == <<"fortune-today: ">>
FortuneFallback == <<"fortune-fallback">>
NoMessagesText == <<"no-messages-to-summarise">>
SummaryFallback == <<"summary-failed-try-again">>
ResearchUsage == <<"research-usage">>
ResearchFallback == <<"cannot-answer-yet">>

\* The `limit` handleResearch reads history with.
ResearchHistoryLimit == 30

\* ============================================================= signature
\* The keyed hash of a raw body under the channel secret, base64-encoded: a fixed
\* table, distinct per body, all of one length.
HmacBase64(rawBody) ==
    << <<"k", "Q">>, <<"7", "f">>, <<"k", "f">>, <<"Z", "Q">>,
       <<"Q", "k">>, <<"f", "7">>, <<"f", "k">>, <<"Q", "Z">>,
       <<"7", "k">>, <<"Z", "f">>, <<"Q", "7">>, <<"f", "Z">>,
       <<"k", "7">>, <<"7", "Z">>, <<"Z", "k">>, <<"Q", "f">> >>[rawBody.id]

\* Mutant: the comparison stops after the first byte.
timingSafeEqualFirstByte(a, b) == a[1] = b[1]

\* crypto.timingSafeEqual on two buffers of one length.
timingSafeEqual(a, b) == \A i \in 1..Len(a) : a[i] = b[i]

\* Mutant: only the lengths are compared.
verifySignatureLengthOnly(rawBody, signature) ==
    IF signature = UndefinedText THEN FALSE
    ELSE IF signature = <<>> THEN FALSE
    ELSE Len(HmacBase64(rawBody)) = Len(signature)

\* LineWebhookService.verifySignature
verifySignature(rawBody, signature) ==
    IF signature = UndefinedText THEN FALSE
    ELSE IF signature = <<>> THEN FALSE
    ELSE LET expected == HmacBase64(rawBody)
         IN  IF Len(expected) # Len(signature) THEN FALSE
             ELSE timingSafeEqual(expected, signature)

\* =============================================================== events
Source(userId, groupId) == [userId |-> userId, groupId |-> groupId, roomId |-> Undefined]

TextEvent(text, source, replyToken, timestamp) ==
    [type |-> "message", timestamp |-> timestamp, replyToken |-> replyToken,
     source |-> source, message |-> [type |-> "text", text |-> text]]

\* The raw request bodies the platform (or anyone else) posts.
RawBodies ==
    { [id |-> 1, json |-> "events",
       events |-> << TextEvent(<<"h","i">>, Source("u1", Undefined), "t1", 1),
                     TextEvent(<<"/","S","u","m","m","a","r","y"," ">>,
                               Source("u1", Undefined), "t2", 2) >>],
      [id |-> 2, json |-> "events",
       events |-> << TextEvent(<<"/","f","o","r","t","u","n","e">>,
                               Source("u2", "g1"), "t3", 3),
                     TextEvent(<<"/","r","e","s","e","a","r","c","h"," ","q">>,
                               Source("u2", "g1"), "t4", 4) >>],
      [id |-> 3, json |-> "invalid", events |-> <<>>],
      [id |-> 4, json |-> "noevents", events |-> <<>>] }

\* The x-line-signature headers a request for rawBody may carry: none, empty, the
\* right one, another body's, and the right one cut short.
Signatures(rawBody) ==
    { UndefinedText, <<>>, HmacBase64(rawBody), HmacBase64([rawBody EXCEPT !.id = 1 + (@ % 4)]),
      SubSeq(HmacBase64(rawBody), 1, 1) }

\* JSON.parse(rawBody) as the route handler uses it: whether it returns, whether
\* it returns null, whether the value has an events array.
JsonParse(rawBody) ==
    [ok |-> rawBody.json # "invalid", isNull |-> rawBody.json = "null",
     hasEvents |-> rawBody.json = "events", events |-> rawBody.events]

\* An event that is not a message (follow, join, ...), or a message that is not
\* text (image, sticker, ...) when messageType is given.
OtherEvent(type, messageType, source, replyToken, timestamp) ==
    [type |-> type, timestamp |-> timestamp, replyToken |-> replyToken,
     source |-> source, message |-> [type |-> messageType, text |-> UndefinedText]]

\* The raw request bodies of SpecOne: one sender, one kind of event or of text
\* after another.
EventBodies ==
    LET u1 == Source("u1", Undefined)
        Body(id, events) == [id |-> id, json |-> "events", events |-> events]
        hello == TextEvent(<<"h","e","l","l","o">>, u1, "t0", 1)
    IN  { Body(5, <<hello, OtherEvent("follow", Undefined, u1, "t1", 2)>>),
          Body(6, <<hello, OtherEvent("message", "image", u1, "t1", 2)>>),
          Body(7, <<hello, TextEvent(<<"y","o">>, u1, Undefined, 2)>>),
          Body(8, <<TextEvent(<<"/","h","e","l","p">>, u1, "", 2)>>),
          Body(9, <<TextEvent(<<" ","/","H","e","l","p"," ","m","e">>, u1, "t1", 2)>>),
          Body(10, <<hello, TextEvent(<<"/","e","v","e","n","t"," ","x">>, u1, "t1", 2),
                     TextEvent(<<"/","p","o","l","l">>, u1, "t2", 3)>>),
          Body(11, <<hello, TextEvent(<<"/","s","u","m","m","a","r","y">>, u1, "t1", 2)>>),
          Body(12, <<TextEvent(<<"/","s","u","m","m","a","r","y","x">>, u1, "t1", 2),
                     TextEvent(<<"/","s","u","m","m","a","r","y">>, u1, "t2", 3)>>),
          Body(13, <<TextEvent(<<"/","d","u","a","n","g"," ","?">>, u1, "t1", 2),
                     TextEvent(<<"/","f","o","r","t","u","n","e","s">>, u1, "t2", 3)>>),
          Body(14, <<TextEvent(<<"/","r","e","s","e","a","r","c","h"," ">>, u1, "t1", 2),
                     TextEvent(<<"/","r","e","s","e","a","r","c","h"," ","q">>, u1, "t2", 3)>>),
          Body(15, <<TextEvent(UndefinedText, u1, "t1", 2)>>),
          [id |-> 16, json |-> "null", events |-> <<>>] }

\* What the text-generation backend may answer: a failure, a text with web
\* sources, whitespace only.
BackendResults ==
    { [ok |-> FALSE, text |-> <<>>, sources |-> <<>>],
      [ok |-> TRUE, text |-> <<" ","o","k"," ">>, sources |-> <<"s1", "s2", "s3">>],
      [ok |-> TRUE, text |-> <<" ">>, sources |-> <<>>] }

\* Clock steps in Spec: one millisecond more than the TTL of ServiceConfigs.
ServiceTickSteps == {MsPerMinute + 1}

\* The configurations of the service in Spec.
ServiceConfigs ==
    { [summaryLimit |-> 2, limit |-> 2, ttlMinutes |-> 1, cap |-> 1] }

\* ============================================================== handlers
NoPrompt == [handler |-> "none", history |-> <<>>, query |-> <<>>]
NoReply == [body |-> <<>>, sources |-> <<>>]
Reply(body) == [body |-> body, sources |-> <<>>]

Did(what, i) ==
    [what |-> what, i |-> i, conv |-> "", entry |-> NoEntry, read |-> <<>>,
     prompt |-> NoPrompt, token |-> "", text |-> NoReply]

InFlight(i, stage, handler, token) ==
    [i |-> i, stage |-> stage, handler |-> handler, token |-> token,
     prompt |-> NoPrompt, text |-> NoReply]

\* An event without a timestamp field.
NoTimestamp == 0 - 1

\* Mutant: the handler calls replyText a second time after the first.
CallReplyTwice(i, handler, token, text) ==
    [pend |-> {[InFlight(i, "reply", handler, token) EXCEPT !.text = text]},
     did |-> <<[Did("reply", i) EXCEPT !.token = token, !.text = text],
               [Did("reply", i) EXCEPT !.token = token, !.text = text]>>]

\* lineClient.replyText(token, text) called by event i's handler.
CallReply(i, handler, token, text) ==
    [pend |-> {[InFlight(i, "reply", handler, token) EXCEPT !.text = text]},
     did |-> <<[Did("reply", i) EXCEPT !.token = token, !.text = text]>>]

\* gemini.generateText / generateTextWithSearch called by event i's handler.
CallBackend(i, handler, token, prompt) ==
    [pend |-> {[InFlight(i, "backend", handler, token) EXCEPT !.prompt = prompt]},
     did |-> <<[Did("generate", i) EXCEPT !.prompt = prompt]>>]

\* The entry handleEvent stores for a text message event.
EventEntry(event) ==
    [userId |-> event.source.userId,
     text |-> IF event.message.text = UndefinedText THEN <<>>
              ELSE Trim(event.message.text),
     timestamp |-> IF event.timestamp = NoTimestamp THEN now ELSE event.timestamp]

IsTextMessage(event) == event.type = "message" /\ event.message.type = "text"

\* Mutant: handleSummary embeds what getRecent returned, unfiltered.
handleSummaryUnfiltered(S, i, token, conversationId) ==
    LET got == ReadResult(S, conversationId, summaryLimit)
        io == IF got = <<>>
              THEN CallReply(i, "summary", token, Reply(NoMessagesText))
              ELSE CallBackend(i, "summary", token,
                       [handler |-> "summary", history |-> formatMessages(got),
                        query |-> <<>>])
    IN  [S |-> ReadFrom(S, conversationId), pend |-> io.pend,
         did |-> <<[Did("read", i) EXCEPT !.conv = conversationId, !.read = got]>>
                 \o io.did]

\* handleSummary up to its first await, on store S.
handleSummary(S, i, token, conversationId) ==
    LET got == ReadResult(S, conversationId, summaryLimit)
        shown == SelectSeq(got, LAMBDA e : ~MatchesWord(e.text, SummaryCommand))
        io == IF shown = <<>>
              THEN CallReply(i, "summary", token, Reply(NoMessagesText))
              ELSE CallBackend(i, "summary", token,
                       [handler |-> "summary", history |-> formatMessages(shown),
                        query |-> <<>>])
    IN  [S |-> ReadFrom(S, conversationId), pend |-> io.pend,
         did |-> <<[Did("read", i) EXCEPT !.conv = conversationId, !.read = got]>>
                 \o io.did]

\* Mutant: handleResearch reads history only after another delivery's message has
\* been appended to the same conversation.
handleResearchAfterOthers(S, i, token, conversationId, text) ==
    LET query == trimCommand(text, ResearchCommand)
        S2 == AddTo(S, conversationId,
                    [userId |-> "u9", text |-> <<"l","a","t","e","r">>, timestamp |-> 9])
    IN  IF query = <<>>
        THEN LET io == CallReply(i, "research", token, Reply(ResearchUsage))
             IN  [S |-> S, pend |-> io.pend, did |-> io.did]
        ELSE LET got == ReadResult(S2, conversationId, ResearchHistoryLimit)
                 io == CallBackend(i, "research", token,
                           [handler |-> "research", history |-> formatMessages(got),
                            query |-> query])
             IN  [S |-> ReadFrom(S2, conversationId), pend |-> io.pend,
                  did |-> <<[Did("read", i) EXCEPT !.conv = conversationId,
                                                   !.read = got]>> \o io.did]

\* handleResearch up to its first await, on store S.
handleResearch(S, i, token, conversationId, text) ==
    LET query == trimCommand(text, ResearchCommand)
    IN  IF query = <<>>
        THEN LET io == CallReply(i, "research", token, Reply(ResearchUsage))
             IN  [S |-> S, pend |-> io.pend, did |-> io.did]
        ELSE LET got == ReadResult(S, conversationId, ResearchHistoryLimit)
                 io == CallBackend(i, "research", token,
                           [handler |-> "research", history |-> formatMessages(got),
                            query |-> query])
             IN  [S |-> ReadFrom(S, conversationId), pend |-> io.pend,
                  did |-> <<[Did("read", i) EXCEPT !.conv = conversationId,
                                                   !.read = got]>> \o io.did]

\* Mutant: the patterns are tested, and the handler reads history, before the
\* message is stored.
handleEventMatchesFirst(S, i, event) ==
    IF ~IsTextMessage(event)
    THEN [S |-> S, pend |-> {}, did |-> <<Did("skip", i)>>]
    ELSE LET entry == EventEntry(event)
             conversationId == buildConversationId(event)
             added == <<[Did("add", i) EXCEPT !.conv = conversationId,
                                              !.entry = entry]>>
             token == event.replyToken
             route == IF token \in {Undefined, ""} THEN "none" ELSE Route(entry.text)
         IN  IF route = "summary"
             THEN LET h == handleSummary(S, i, token, conversationId)
                  IN  [S |-> AddTo(h.S, conversationId, entry), pend |-> h.pend,
                       did |-> h.did \o added]
             ELSE [S |-> AddTo(S, conversationId, entry), pend |-> {},
                   did |-> added \o <<Did("end", i)>>]

\* handleEvent for event i up to its first await (or its return): the store
\* afterwards, the call left in flight, and what was done.
handleEvent(S, i, event) ==
    IF ~IsTextMessage(event)
    THEN [S |-> S, pend |-> {}, did |-> <<Did("skip", i)>>]
    ELSE LET entry == EventEntry(event)
             conversationId == buildConversationId(event)
             S1 == AddTo(S, conversationId, entry)
             added == <<[Did("add", i) EXCEPT !.conv = conversationId,
                                              !.entry = entry]>>
             token == event.replyToken
             route == IF token \in {Undefined, ""} THEN "none" ELSE Route(entry.text)
         IN  CASE route = "summary" ->
                    LET h == handleSummary(S1, i, token, conversationId)
                    IN  [h EXCEPT !.did = added \o @]
               [] route = "help" ->
                    LET io == CallReply(i, "help", token, Reply(HELP_TEXT))
                    IN  [S |-> S1, pend |-> io.pend, did |-> added \o io.did]
               [] route = "fortune" ->
                    LET io == CallBackend(i, "fortune", token,
                                  [handler |-> "fortune", history |-> <<>>,
                                   query |-> <<>>])
                    IN  [S |-> S1, pend |-> io.pend, did |-> added \o io.did]
               [] route = "research" ->
                    LET h == handleResearch(S1, i, token, conversationId, entry.text)
                    IN  [h EXCEPT !.did = added \o @]
               [] OTHER -> [S |-> S1, pend |-> {}, did |-> added \o <<Did("end", i)>>]

\* Mutant: the handlers reply with the trimmed answer, empty or not.
ReplyForNoFallback(handler, result) ==
    LET answer == Trim(result.text)
    IN  CASE handler = "fortune" -> Reply(FortunePrefix \o answer)
          [] handler = "summary" -> Reply(answer)
          [] OTHER ->
               [body |-> answer,
                sources |-> [k \in 1..Min(2, Len(result.sources)) |->
                                [index |-> k, uri |-> result.sources[k]]]]

\* The reply a handler sends once the backend has answered.
ReplyFor(handler, result) ==
    LET answer == Trim(result.text)
    IN  CASE handler = "fortune" ->
               Reply(FortunePrefix \o (IF answer = <<>> THEN FortuneFallback ELSE answer))
          [] handler = "summary" ->
               Reply(IF answer = <<>> THEN SummaryFallback ELSE answer)
          [] OTHER ->
               [body |-> IF answer = <<>> THEN ResearchFallback ELSE answer,
                sources |-> [k \in 1..Min(2, Len(result.sources)) |->
                                [index |-> k, uri |-> result.sources[k]]]]

\* ======================================================= service actions
\* handleWebhook's catch: the error is logged and the loop goes on.
OnHandlerErrorPropagates(r) == [r EXCEPT !.pc = "done", !.status = 500]
OnHandlerError(r) == [r EXCEPT !.pc = "ready"]

\* `await this.handleEvent(event)`: with a call in flight the loop waits for
\* it; with none, handleEvent has returned and the loop is ready to go on.
AwaitDetached(pend) == "ready"
Await(pend) == IF pend = {} THEN "ready" ELSE "wait"

\* The loop of handleWebhook takes event i of delivery d, whose record is r.
StartEvent(d, r, i) ==
    LET h == handleEvent(StoreView, i, r.events[i])
    IN  /\ SetStore(h.S)
        /\ req' = [req EXCEPT ![d] = [r EXCEPT !.idx = i, !.pc = Await(h.pend),
                                               !.pending = @ \cup h.pend]]
        /\ trace' = [trace EXCEPT ![d] = @ \o h.did]

Init ==
    /\ \E cfg \in ServiceConfigs :
          /\ summaryLimit = cfg.summaryLimit
          /\ limit = cfg.limit
          /\ ttlMs = TtlMsOf(cfg.ttlMinutes)
          /\ maxConversations = cfg.cap
          /\ feed = [convs |-> {}, texts |-> {}, reads |-> {},
                     ttlMinutes |-> cfg.ttlMinutes]
    /\ history = <<>>
    /\ now = 0
    /\ ret = <<>>
    /\ lastOp = NoOp
    /\ log = [c \in Conversations |-> <<>>]
    /\ born = [c \in Conversations |-> 0]
    /\ touch = <<>>
    /\ ops = 0
    /\ ticks = 0
    /\ req = [d \in Deliveries |-> IdleRequest]
    /\ trace = [d \in Deliveries |-> <<>>]

\* POST /line/webhook with body rawBody and x-line-signature header signature,
\* as far as the handler runs before it first has to wait. Deliveries are
\* numbered in the order they arrive.
Post(d, rawBody, signature) ==
    /\ req[d].pc = "idle"
    /\ \A earlier \in Deliveries : earlier < d => req[earlier].pc # "idle"
    /\ LET r == [req[d] EXCEPT !.body = rawBody.id, !.signature = signature]
           payload == JsonParse(rawBody)
       IN  IF ~verifySignature(rawBody, signature)
           THEN /\ req' = [req EXCEPT ![d] = [r EXCEPT !.pc = "done", !.status = 401]]
                /\ UNCHANGED <<storeVars, trace>>
           ELSE IF ~payload.ok
           THEN /\ req' = [req EXCEPT ![d] = [r EXCEPT !.pc = "done", !.status = 400]]
                /\ UNCHANGED <<storeVars, trace>>
           ELSE IF payload.isNull
           THEN \* `payload.events` throws a TypeError; the handler returns nothing
                /\ req' = [req EXCEPT ![d] = [r EXCEPT !.pc = "done", !.status = 500]]
                /\ UNCHANGED <<storeVars, trace>>
           ELSE IF ~payload.hasEvents
           THEN /\ req' = [req EXCEPT ![d] = [r EXCEPT !.pc = "done", !.status = 400]]
                /\ UNCHANGED <<storeVars, trace>>
           ELSE IF payload.events = <<>>
           THEN /\ req' = [req EXCEPT ![d] = [r EXCEPT !.pc = "ready"]]
                /\ UNCHANGED <<storeVars, trace>>
           ELSE StartEvent(d, [r EXCEPT !.events = payload.events], 1)
    /\ UNCHANGED <<configVars, now, ret, lastOp, ops, ticks>>

\* The loop of handleWebhook goes on: the next event, or the end of the
\* loop and the 200 response.
Resume(d) ==
    /\ req[d].pc = "ready"
    /\ IF req[d].idx < Len(req[d].events)
       THEN StartEvent(d, req[d], req[d].idx + 1)
       ELSE /\ req' = [req EXCEPT ![d].pc = "done", ![d].status = 200]
            /\ UNCHANGED <<storeVars, trace>>
    /\ UNCHANGED <<configVars, now, ret, lastOp, ops, ticks>>

\* The handler whose call p has settled: is the loop of d waiting for it?
Awaited(d, p) == req[d].pc = "wait" /\ req[d].idx = p.i

\* The call p of delivery d rejects: the handler of event p.i throws.
EventFailed(d, p) ==
    /\ req' = [req EXCEPT ![d] =
                  LET r == [@ EXCEPT !.pending = @ \ {p}]
                  IN  IF Awaited(d, p) THEN OnHandlerError(r) ELSE r]
    /\ trace' = [trace EXCEPT ![d] = Append(@, Did("failed", p.i))]

\* The call p of delivery d was the handler's last and resolves.
EventEnded(d, p) ==
    /\ req' = [req EXCEPT ![d] =
                  [@ EXCEPT !.pending = @ \ {p},
                            !.pc = IF Awaited(d, p) THEN "ready" ELSE @]]
    /\ trace' = [trace EXCEPT ![d] = Append(@, Did("end", p.i))]

\* The text-generation backend settles the call p of delivery d with result.
BackendDone(d, p, result) ==
    /\ p \in req[d].pending
    /\ p.stage = "backend"
    /\ IF ~result.ok
       THEN EventFailed(d, p)
       ELSE LET text == ReplyFor(p.handler, result)
                io == CallReply(p.i, p.handler, p.token, text)
            IN  /\ req' = [req EXCEPT ![d].pending = (@ \ {p}) \cup io.pend]
                /\ trace' = [trace EXCEPT ![d] =
                                 @ \o <<[Did("answer", p.i) EXCEPT
                                            !.text = Reply(result.text)]>> \o io.did]
    /\ UNCHANGED <<configVars, storeVars, now, ret, lastOp, ops, ticks>>

\* The reply endpoint settles the call p of delivery d: replyText resolves, or
\* rejects on a response that is not ok.
ReplyDone(d, p, ok) ==
    /\ p \in req[d].pending
    /\ p.stage = "reply"
    /\ IF ok THEN EventEnded(d, p) ELSE EventFailed(d, p)
    /\ UNCHANGED <<configVars, storeVars, now, ret, lastOp, ops, ticks>>

Next ==
    \/ \E d \in Deliveries, rawBody \in RawBodies :
          \E signature \in Signatures(rawBody) : Post(d, rawBody, signature)
    \/ \E d \in Deliveries : Resume(d)
    \/ \E d \in Deliveries : \E p \in req[d].pending, result \in BackendResults :
          BackendDone(d, p, result)
    \/ \E d \in Deliveries : \E p \in req[d].pending, ok \in BOOLEAN :
          ReplyDone(d, p, ok)
    \/ \E step \in ServiceTickSteps : Tick(step)

Spec == Init /\ [][Next]_vars

\* The configurations of the service in SpecOne: that of Spec, and one whose
\* summary limit is below the history limit, with TTL and cap switched off.
OneConfigs ==
    ServiceConfigs \cup { [summaryLimit |-> 1, limit |-> 2, ttlMinutes |-> 0, cap |-> 0] }

InitOne ==
    /\ \E cfg \in OneConfigs :
          /\ summaryLimit = cfg.summaryLimit
          /\ limit = cfg.limit
          /\ ttlMs = TtlMsOf(cfg.ttlMinutes)
          /\ maxConversations = cfg.cap
          /\ feed = [convs |-> {}, texts |-> {}, reads |-> {},
                     ttlMinutes |-> cfg.ttlMinutes]
    /\ history = <<>>
    /\ now = 0
    /\ ret = <<>>
    /\ lastOp = NoOp
    /\ log = [c \in Conversations |-> <<>>]
    /\ born = [c \in Conversations |-> 0]
    /\ touch = <<>>
    /\ ops = 0
    /\ ticks = 0
    /\ req = [d \in Deliveries |-> IdleRequest]
    /\ trace = [d \in Deliveries |-> <<>>]

\* One delivery at a time, of a body of EventBodies, signed or not.
NextOne ==
    \/ \E rawBody \in EventBodies :
          \E signature \in {HmacBase64(rawBody), UndefinedText} :
              Post(1, rawBody, signature)
    \/ Resume(1)
    \/ \E p \in req[1].pending, result \in BackendResults : BackendDone(1, p, result)
    \/ \E p \in req[1].pending, ok \in BOOLEAN : ReplyDone(1, p, ok)
    \/ \E step \in ServiceTickSteps : Tick(step)

SpecOne == InitOne /\ [][NextOne]_vars

\* ============================================================ store claims
Bucket(c) == MapGet(history, c)

\* What FIFO truncation leaves of the entries added to c's present bucket.
FifoContent(c) == LastN(log[c], Min(limit, born[c]))

\* C1, as stated: when one conversation alone has been appended to and read, its
\* bucket holds at most historyLimit entries, and they are the most recent
\* historyLimit messages ever appended to it, oldest first.
C1_FifoOfAllAppends ==
    \A c \in Keys(history) :
        (Len(touch) = 1 /\ touch[1].conv = c) =>
            /\ Len(Bucket(c).items) <= limit
            /\ Bucket(c).items = LastN(log[c], limit)

\* C1, amended: every bucket holds at most historyLimit entries, and they are the
\* most recent historyLimit of the messages appended since that bucket was last
\* created (a bucket removed by expiry or eviction starts again empty), oldest first.
C1_FifoSinceCreation ==
    \A c \in Keys(history) :
        /\ Len(Bucket(c).items) <= limit
        /\ Bucket(c).items = FifoContent(c)

\* C1 witness: a bucket that has dropped its oldest entry and holds the two newest.
C1_Witness ==
    \E c \in Keys(history) :
        /\ limit = 2 /\ born[c] = 3
        /\ [i \in 1..2 |-> Bucket(c).items[i].text] = <<(<<"b">>), (<<"a">>)>>
        /\ [i \in 1..3 |-> log[c][i].text] = <<(<<"a">>), (<<"b">>), (<<"a">>)>>

\* C2, as stated: with maxConversations = k > 0 the store never holds more than k
\* buckets, in particular after an append.
C2_CapacityBound ==
    maxConversations > 0 => Len(history) <= maxConversations

\* C3: every bucket removed by capacity eviction had, when it was removed, the
\* oldest lastSeen of the buckets then present, and among those with that lastSeen
\* it was the one touched (appended to or read) least recently.
C3_LruEvictionOrder ==
    lastOp.kind # "none" =>
        \A i \in 1..Len(lastOp.evicted) :
            LET v == lastOp.evicted[i].victim
            IN  \A b \in lastOp.evicted[i].present :
                    b.key # v.key =>
                        \/ v.lastSeen < b.lastSeen
                        \/ /\ v.lastSeen = b.lastSeen
                           /\ Rank(lastOp.touchBefore, v.key)
                                < Rank(lastOp.touchBefore, b.key)

\* C3 witness: an eviction that removed the least recently touched conversation
\* and spared one whose last touch was a read.
C3_Witness ==
    /\ Len(lastOp.evicted) = 1
    /\ Len(lastOp.touchBefore) = 3
    /\ lastOp.evicted[1].victim.key = lastOp.touchBefore[1].conv
    /\ lastOp.touchBefore[2].by = "getRecent"
    /\ lastOp.touchBefore[2].conv \in Keys(history)
    /\ lastOp.touchBefore[1].conv \notin Keys(history)

\* C4: with a TTL of t > 0 minutes, after any add or getRecent no conversation
\* that had gone untouched for more than t minutes still has its old bucket: a
\* bucket present was touched at most t minutes before that operation; a getRecent
\* on the expired conversation returned nothing and left it absent; an add to it
\* left a bucket holding the new entry alone.
C4_LazyExpiry ==
    (feed.ttlMinutes > 0 /\ lastOp.kind # "none") =>
        /\ \A c \in Keys(history) :
              lastOp.at - TouchedAt(touch, c) <= ConfiguredTtl
        /\ (lastOp.kind = "getRecent" /\ lastOp.stale) =>
              (ret = <<>> /\ lastOp.conv \notin Keys(history))
        /\ (lastOp.kind = "add" /\ lastOp.stale) =>
              (/\ lastOp.conv \in Keys(history)
               /\ Bucket(lastOp.conv).items = <<lastOp.entry>>)

\* C4 witness: an add to an expired conversation while another expired bucket
\* was present, after which only the fresh bucket remains.
C4_Witness ==
    /\ feed.ttlMinutes > 0
    /\ lastOp.kind = "add" /\ lastOp.stale
    /\ Len(lastOp.touchBefore) = 2
    /\ \A i \in 1..2 : lastOp.at - lastOp.touchBefore[i].at > ConfiguredTtl
    /\ Keys(history) = {lastOp.conv}

\* C9: getRecent(id, n) returns the last min(n, len) entries of the bucket, oldest
\* first, and the bucket still holds exactly what the appends put in it; for a
\* conversation without a bucket it returns nothing.
C9_RecentIsSuffix ==
    lastOp.kind = "getRecent" =>
        IF lastOp.conv \in Keys(history)
        THEN /\ ret = LastN(FifoContent(lastOp.conv), lastOp.n)
             /\ Bucket(lastOp.conv).items = FifoContent(lastOp.conv)
        ELSE ret = <<>>

\* C9 witness: a read of one entry from a bucket of two returned the newer one.
C9_Witness ==
    /\ lastOp.kind = "getRecent" /\ lastOp.n = 1
    /\ lastOp.conv \in Keys(history)
    /\ Len(Bucket(lastOp.conv).items) = 2
    /\ Bucket(lastOp.conv).items[1].text = <<"a">>
    /\ Len(ret) = 1 /\ ret[1].text = <<"b">>

\* The k conversations touched most recently before the last operation.
RecentlyTouched(k) ==
    LET order == lastOp.touchBefore
    IN  {order[i].conv : i \in (Len(order) - Min(k, Len(order)) + 1)..Len(order)}

\* The operations so far were appends to k+1 distinct conversations, then one read.
AfterAppendsToOneMoreThanCap ==
    /\ lastOp.kind = "getRecent"
    /\ Len(lastOp.touchBefore) = maxConversations + 1
    /\ ops = maxConversations + 2

\* C10: with maxConversations = k > 0, getRecent returns entries only of a
\* conversation among the k touched most recently before the call; after appends
\* to k+1 distinct conversations and nothing else, getRecent on the first returns
\* nothing and getRecent on the last (unless it has expired) returns its entry.
C10_EvictionIsObservable ==
    (maxConversations > 0 /\ lastOp.kind = "getRecent") =>
        /\ ret # <<>> => lastOp.conv \in RecentlyTouched(maxConversations)
        /\ AfterAppendsToOneMoreThanCap =>
              /\ lastOp.conv = lastOp.touchBefore[1].conv => ret = <<>>
              /\ (/\ lastOp.conv = lastOp.touchBefore[maxConversations + 1].conv
                  /\ ~lastOp.stale) => ret # <<>>

\* C10 witness: cap 2, three conversations appended to, the first one read: nothing.
C10_Witness ==
    /\ maxConversations = 2
    /\ AfterAppendsToOneMoreThanCap
    /\ lastOp.conv = lastOp.touchBefore[1].conv
    /\ ret = <<>>
    /\ Len(history) = 2

\* ========================================================== service claims
BodyOf(r) == CHOOSE b \in RawBodies \cup EventBodies : b.id = r.body

Received(d) == req[d].pc # "idle"

\* The signature of a received request is absent, empty or not the HMAC of its body.
BadSignature(r) ==
    \/ r.signature = UndefinedText
    \/ r.signature = <<>>
    \/ r.signature # HmacBase64(BodyOf(r))

\* The places in d's trace where event i did `what`.
Places(d, what, i) ==
    {p \in 1..Len(trace[d]) : trace[d][p].what = what /\ trace[d][p].i = i}

\* C5: a request whose signature is absent, empty or not the HMAC of its raw body
\* is answered 401 in the step that receives it, and that step appends nothing to
\* the store, calls neither the backend nor the reply endpoint, and leaves the
\* store exactly as it was.
C5_AuthenticationGate ==
    [][\A d \in Deliveries :
          (~Received(d) /\ Received(d)' /\ BadSignature(req'[d])) =>
              /\ req'[d].pc = "done" /\ req'[d].status = 401
              /\ req'[d].pending = {} /\ req'[d].events = <<>>
              /\ trace' = trace /\ trace[d] = <<>>
              /\ history' = history]_vars

\* C5 witness: a request signed with another body's HMAC (same length, other
\* bytes) has been answered 401 while the store holds an accepted delivery's entry.
C5_Witness ==
    \E d \in Deliveries :
        /\ req[d].pc = "done" /\ req[d].status = 401
        /\ Len(req[d].signature) = Len(HmacBase64(BodyOf(req[d])))
        /\ req[d].signature # HmacBase64(BodyOf(req[d]))
        /\ trace[d] = <<>>
        /\ history # <<>>

\* Event i of delivery d has been processed: recorded in the store if it is a text
\* message and, if it carries a reply token and a command, its reply attempted or
\* its handler failed before that.
Processed(d, i) ==
    LET event == req[d].events[i]
        command == /\ event.replyToken \notin {Undefined, ""}
                   /\ Route(EventEntry(event).text) # "none"
    IN  IF ~IsTextMessage(event) THEN Places(d, "skip", i) # {}
        ELSE /\ \E p \in Places(d, "add", i) :
                   /\ trace[d][p].conv = buildConversationId(event)
                   /\ trace[d][p].entry.text = EventEntry(event).text
             /\ command => Places(d, "reply", i) \cup Places(d, "failed", i) # {}
             /\ Places(d, "end", i) \cup Places(d, "failed", i) # {}

\* C6: a failure in the handling of one event (the backend call throws or the
\* reply call fails) does not reach the caller of handleWebhook: the delivery is
\* never answered with an error, and when it is answered every event of the batch
\* has been processed, those after the failed one included.
C6_FailureIsolation ==
    \A d \in Deliveries :
        /\ req[d].status \in {0, 200, 400, 401}
        /\ \A i \in 1..Len(req[d].events) :
              Places(d, "failed", i) # {} =>
                  /\ req[d].pc \in {"ready", "wait", "done"}
                  /\ req[d].idx >= i
        /\ (req[d].pc = "done" /\ req[d].status = 200) =>
              \A i \in 1..Len(req[d].events) : Processed(d, i)

\* C6 witness: a two-event delivery answered 200 whose first event's backend call
\* threw and whose second event's reply was attempted after that.
C6_Witness ==
    \E d \in Deliveries :
        /\ req[d].pc = "done" /\ req[d].status = 200
        /\ Len(req[d].events) = 2
        /\ \E f \in Places(d, "failed", 1), g \in Places(d, "generate", 1) :
              /\ g < f
              /\ Places(d, "reply", 1) = {}
              /\ \E q \in Places(d, "reply", 2) : f < q

\* The entries the deliveries have appended to conversation c.
Appended(c) ==
    UNION {{trace[d][p].entry : p \in {q \in 1..Len(trace[d]) :
                                          /\ trace[d][q].what = "add"
                                          /\ trace[d][q].conv = c}} :
           d \in Deliveries}

\* C7: with several deliveries in flight, suspended at backend and reply calls,
\* every bucket holds at most historyLimit entries; they are, in append order, the
\* latest of the entries appended to that conversation since the bucket was
\* created; each is an entry some delivery appended to that very conversation; and
\* the observers of the store agree with the Map on which conversations were touched.
C7_ConcurrentAccessSafety ==
    /\ \A c \in Keys(history) :
          /\ Len(Bucket(c).items) <= limit
          /\ Len(Bucket(c).items) = Min(limit, born[c])
          /\ Bucket(c).items = FifoContent(c)
          /\ \A k \in 1..Len(Bucket(c).items) : Bucket(c).items[k] \in Appended(c)
          /\ Rank(touch, c) > 0
    /\ \A i, j \in 1..Len(history) : history[i].key = history[j].key => i = j

\* C7 witness: two deliveries are suspended in calls at once, both have appended
\* to the same conversation, and its bucket has dropped its oldest entry.
C7_Witness ==
    \E c \in Keys(history) :
        /\ \A d \in Deliveries :
              /\ req[d].pending # {}
              /\ \E i \in 1..Len(req[d].events) :
                    \E p \in Places(d, "add", i) : trace[d][p].conv = c
        /\ born[c] > limit
        /\ Len(Bucket(c).items) = limit

Terminal(x) == x.what \in {"skip", "end", "failed"}

\* C8: in the trace of a delivery nothing is done for an event before the
\* handling of each earlier event has ended or failed (so the appends come in
\* arrival order), and when a handler reads history every earlier text event of
\* the batch has been appended.
C8_SequentialWithinDelivery ==
    \A d \in Deliveries :
        /\ \A q \in 1..Len(trace[d]) : \A p \in 1..(q - 1) :
              /\ trace[d][p].i <= trace[d][q].i
              /\ trace[d][p].i < trace[d][q].i =>
                    \E m \in p..(q - 1) :
                        trace[d][m].i = trace[d][p].i /\ Terminal(trace[d][m])
        /\ \A q \in 1..Len(trace[d]) :
              trace[d][q].what = "read" =>
                  \A i \in 1..(trace[d][q].i - 1) :
                      IsTextMessage(req[d].events[i]) =>
                          \E p \in Places(d, "add", i) : p < q

\* C8 witness: the first event's handler was suspended in a backend call and then
\* in a reply call; only after it ended was the second event appended, and the
\* second event's handler read a history holding the first event's message.
C8_Witness ==
    \E d \in Deliveries :
        \E g \in Places(d, "generate", 1), r \in Places(d, "reply", 1),
           e \in Places(d, "end", 1), a \in Places(d, "add", 2),
           h \in Places(d, "read", 2) :
            /\ g < r /\ r < e /\ e < a /\ a < h
            /\ Len(trace[d][h].read) = 2
            /\ trace[d][h].read[1].text = EventEntry(req[d].events[1]).text

\* ============================================================ event claims
\* The event a delivery has just taken, and whether the filter of the
\* specification drops it: not a text message event, or no reply token.
Taken(d) == req[d].events[req[d].idx]

NoReplyToken(event) == event.replyToken \in {Undefined, ""}

FilteredOut(event) == ~IsTextMessage(event) \/ NoReplyToken(event)

\* The records of d's trace for calls of the backend or of the reply endpoint.
Calls(d, i) == Places(d, "generate", i) \cup Places(d, "reply", i)

\* C11, as stated: the step that takes an event which is not a text message
\* event, or which carries no reply token, leaves the store as it was and makes
\* no backend call and no reply.
C11_FilterIsNoOp ==
    [][\A d \in Deliveries :
          (req'[d].idx # req[d].idx /\ FilteredOut(Taken(d)')) =>
              /\ history' = history
              /\ req'[d].pending = {}
              /\ \A p \in 1..Len(trace'[d]) :
                    trace'[d][p].i = req'[d].idx =>
                        trace'[d][p].what \notin {"generate", "reply"}]_vars

\* The last element of a sequence that has one.
Last(s) == s[Len(s)]

\* C12: whenever handleSummary builds a prompt, the history in it is the lines of
\* exactly those of the last summaryLimit entries of the conversation's bucket
\* that are not /summary invocations, oldest first, and there is at least one; when
\* none is left it sends the fixed no-messages reply and builds no prompt.
C12_SummaryHistoryContent ==
    [][\A d \in Deliveries :
          (/\ req'[d].idx # req[d].idx
           /\ IsTextMessage(Taken(d)') /\ ~NoReplyToken(Taken(d)')
           /\ MatchesWord(EventEntry(Taken(d)').text, SummaryCommand)) =>
              LET c == buildConversationId(Taken(d)')
                  stored == MapGet(history', c).items
                  recent == LastN(stored, summaryLimit)
                  kept == SelectSeq(recent, LAMBDA e : ~MatchesWord(e.text, SummaryCommand))
                  did == Last(trace'[d])
              IN  IF kept = <<>>
                  THEN /\ did.what = "reply" /\ did.text = Reply(NoMessagesText)
                  ELSE /\ did.what = "generate" /\ did.prompt.handler = "summary"
                       /\ did.prompt.history = formatMessages(kept)]_vars

\* C12 witness: "hello" then "/summary" in user:u1; the bucket holds both and the
\* prompt's history is the one line of "hello".
C12_Witness ==
    \E d \in Deliveries : \E p \in Places(d, "generate", 2) :
        /\ trace[d][p].prompt.handler = "summary"
        /\ [k \in 1..Len(trace[d][p].prompt.history) |-> trace[d][p].prompt.history[k].text]
               = << <<"h","e","l","l","o">> >>
        /\ "user:u1" \in Keys(history)
        /\ [k \in 1..Len(Bucket("user:u1").items) |-> Bucket("user:u1").items[k].text]
               = << <<"h","e","l","l","o">>, <<"/","s","u","m","m","a","r","y">> >>

\* The command pattern whose match runs the handler named.
InvokedBy(handler, text) ==
    CASE handler = "summary" -> MatchesWord(text, SummaryCommand)
      [] handler = "research" -> MatchesWord(text, ResearchCommand)
      [] OTHER -> FALSE

\* C13, as stated: no line of the history embedded in a handler's prompt is an
\* invocation of that handler's own command.
C13_OwnInvocationsFilteredOut ==
    \A d \in Deliveries : \A p \in 1..Len(trace[d]) :
        trace[d][p].what = "generate" =>
            \A k \in 1..Len(trace[d][p].prompt.history) :
                ~InvokedBy(trace[d][p].prompt.handler, trace[d][p].prompt.history[k].text)

\* The body of a received request is not parseable JSON, or parses to a value
\* without an events array.
Malformed(r) == BodyOf(r).json # "events"

\* C14, as stated: the step that receives a request with a malformed body answers
\* 400 when the signature is good and 401 when it is not, takes no event, makes no
\* call and leaves the store as it was.
C14_MalformedInputRejected ==
    [][\A d \in Deliveries :
          (~Received(d) /\ Received(d)' /\ Malformed(req'[d])) =>
              /\ req'[d].pc = "done"
              /\ req'[d].status = IF BadSignature(req'[d]) THEN 401 ELSE 400
              /\ req'[d].pending = {} /\ req'[d].events = <<>>
              /\ trace' = trace /\ history' = history]_vars

\* Event i of delivery d, taken by the loop, runs a command handler.
RunsHandler(d, i) ==
    /\ i <= req[d].idx
    /\ IsTextMessage(req[d].events[i])
    /\ ~NoReplyToken(req[d].events[i])
    /\ Route(EventEntry(req[d].events[i]).text) # "none"

\* The backend call of event i's handler is still in flight, or has thrown.
AwaitsBackend(d, i) == \E p \in req[d].pending : p.i = i /\ p.stage = "backend"

BackendFailed(d, i) == Places(d, "failed", i) # {} /\ Places(d, "reply", i) = {}

\* C15: for every event of every delivery the reply endpoint is called at most
\* once, and then with that event's reply token; it has been called exactly once
\* as soon as a command handler has run past its backend call (if it has one)
\* without a failure; it is never called for an event that is not a text message,
\* has no reply token or matches no command.
C15_SingleReplyPerEvent ==
    \A d \in Deliveries : \A i \in 1..Len(req[d].events) :
        /\ Cardinality(Places(d, "reply", i)) <= 1
        /\ \A p \in Places(d, "reply", i) :
              trace[d][p].token = req[d].events[i].replyToken
        /\ (RunsHandler(d, i) /\ ~AwaitsBackend(d, i) /\ ~BackendFailed(d, i)) =>
              Cardinality(Places(d, "reply", i)) = 1
        /\ ~RunsHandler(d, i) => Places(d, "reply", i) = {}

\* C15 witness: a delivery has ended in which one event's handler replied once
\* after its backend call and another event, matching no command, got no reply.
C15_Witness ==
    \E d \in Deliveries :
        /\ req[d].pc = "done" /\ req[d].status = 200
        /\ \E i, j \in 1..Len(req[d].events) :
              /\ Places(d, "generate", i) # {}
              /\ Cardinality(Places(d, "reply", i)) = 1
              /\ Places(d, "end", i) # {}
              /\ IsTextMessage(req[d].events[j]) /\ ~NoReplyToken(req[d].events[j])
              /\ ~RunsHandler(d, j)
              /\ Places(d, "reply", j) = {}

\* ========================================================= event planner
\* The older copy of the service (modules/line-webhook/service.ts) has a handler
\* for /event and /poll; what follows is its code after the backend has answered.
\* A JSON value is [kind, fields]; a field of an object is [is, v] with `is` one
\* of "absent", "null", "value", or "string" where the contract asks for an array.
Field(is, v) == [is |-> is, v |-> v]
NoDate == [text |-> <<>>, valid |-> FALSE]

PlanFields ==
    [title : {Field("absent", <<>>), Field("null", <<>>), Field("value", <<"T">>)},
     datetime : {Field("absent", NoDate),
                 Field("value", [text |-> <<"2026-01-01T10:00:00Z">>, valid |-> TRUE]),
                 Field("value", [text |-> <<"soon">>, valid |-> FALSE])},
     durationMinutes : {Field("absent", 0), Field("null", 0), Field("value", 60),
                        Field("value", 0)},
     location : {Field("absent", <<>>), Field("value", <<"L">>)},
     participants : {Field("absent", <<>>), Field("value", <<>>),
                     Field("value", <<"a", "b">>), Field("string", <<"a", "b">>)},
     openQuestions : {Field("absent", <<>>), Field("value", <<"q">>)},
     pollOptions : {Field("absent", <<>>), Field("value", <<"o">>)}]

NoFields == CHOOSE f \in PlanFields : \A name \in DOMAIN f : f[name].is = "absent"

\* What generateText may return to handleEventPlanner: text that is not JSON, or
\* the JSON text of a null, a number, a string, a boolean, an array or an object.
ModelOutputs ==
    {[kind |-> k, truthy |-> t, fields |-> NoFields] :
        k \in {"unparseable", "null"}, t \in {FALSE}}
    \cup {[kind |-> k, truthy |-> t, fields |-> NoFields] :
        k \in {"number", "string", "boolean"}, t \in BOOLEAN}
    \cup {[kind |-> "array", truthy |-> TRUE, fields |-> NoFields]}
    \cup {[kind |-> "object", truthy |-> TRUE, fields |-> f] : f \in PlanFields}

\* safeJsonParse: JSON.parse, or null when it throws.
safeJsonParse(raw) ==
    IF raw.kind = "unparseable"
    THEN [kind |-> "null", truthy |-> FALSE, fields |-> NoFields]
    ELSE raw

\* typeof parsed === 'object'
TypeofObject(parsed) == parsed.kind \in {"null", "array", "object"}

\* field ?? fallback
OrElse(field, fallback) == IF field.is \in {"absent", "null"} THEN fallback ELSE field.v

PlanDefaults ==
    [title |-> <<"appointment">>, datetime |-> NoDate,
     durationMinutes |-> 90, location |-> <<>>, participants |-> <<>>,
     openQuestions |-> <<>>, pollOptions |-> <<>>]

\* buildCalendarLink: null (here <<>>) for a start that is no date.
buildCalendarLink(title, startIso, durationMinutes, location) ==
    IF ~startIso.valid THEN <<>>
    ELSE <<[title |-> title, start |-> startIso.text, minutes |-> durationMinutes,
            location |-> location]>>

PlanFallbackText == <<"could-not-parse-plan">>
PlanClosingLine == [label |-> "closing", value |-> <<"say-more-for-a-poll">>]

\* handleEventPlanner from the backend's answer `raw` on: the replyText it makes
\* ("fallback" or "plan" with its lines), or the error it throws.
handleEventPlannerReply(raw) ==
    LET parsed == safeJsonParse(raw)
        data == parsed.fields
        title == OrElse(data.title, PlanDefaults.title)
        location == OrElse(data.location, PlanDefaults.location)
        datetime == OrElse(data.datetime, PlanDefaults.datetime)
        duration == OrElse(data.durationMinutes, PlanDefaults.durationMinutes)
        participants == OrElse(data.participants, PlanDefaults.participants)
        openQuestions == OrElse(data.openQuestions, PlanDefaults.openQuestions)
        pollOptions == OrElse(data.pollOptions, PlanDefaults.pollOptions)
        calendarLink == IF datetime.text # <<>> /\ duration # 0
                        THEN buildCalendarLink(title, datetime, duration, location)
                        ELSE <<>>
        Line(label, value) == <<[label |-> label, value |-> value]>>
        lines == Line("title", title)
                 \o Line("datetime", IF datetime.text # <<>> THEN datetime.text
                                     ELSE <<"(unclear)">>)
                 \o Line("location", IF location # <<>> THEN location ELSE <<"(unclear)">>)
                 \o (IF Len(participants) > 0 THEN Line("participants", participants)
                     ELSE <<>>)
                 \o (IF Len(pollOptions) > 0 THEN Line("pollOptions", pollOptions) ELSE <<>>)
                 \o (IF Len(openQuestions) > 0 THEN Line("openQuestions", openQuestions)
                     ELSE <<>>)
                 \o (IF calendarLink # <<>> THEN Line("calendar", calendarLink) ELSE <<>>)
                 \o <<PlanClosingLine>>
    IN  IF ~parsed.truthy \/ ~TypeofObject(parsed)
        THEN [kind |-> "fallback", lines |-> Line("fallback", PlanFallbackText)]
        ELSE IF data.participants.is = "string" /\ Len(participants) > 0
        THEN \* participants.join is not a function
             [kind |-> "error", lines |-> <<>>]
        ELSE [kind |-> "plan", lines |-> lines]

\* The event planner is given one answer of the backend.
InitPlanner ==
    /\ \E raw \in ModelOutputs :
          feed = [convs |-> {}, texts |-> {}, reads |-> {}, ttlMinutes |-> 0,
                  raw |-> raw]
    /\ summaryLimit = 0 /\ limit = 0 /\ ttlMs = 0 /\ maxConversations = 0
    /\ history = <<>>
    /\ now = 0
    /\ ret = <<>>
    /\ lastOp = NoOp
    /\ log = [c \in Conversations |-> <<>>]
    /\ born = [c \in Conversations |-> 0]
    /\ touch = <<>>
    /\ ops = 0
    /\ ticks = 0
    /\ req = [d \in Deliveries |-> IdleRequest]
    /\ trace = [d \in Deliveries |-> <<>>]

\* handleEventPlanner goes on after `await this.gemini.generateText(prompt)`.
PlannerReplies ==
    /\ ret = <<>>
    /\ ret' = <<handleEventPlannerReply(feed.raw)>>
    /\ UNCHANGED <<configVars, storeVars, serviceVars, now, lastOp, ops, ticks>>

SpecPlanner == InitPlanner /\ [][PlannerReplies]_vars

\* C16, as stated: the fallback reply is sent exactly when the model output is not
\* a JSON object (unparseable, or a null, number, string, boolean or array); for a
\* JSON object the plan reply is sent, with the default in the place of every
\* absent field, and no error is thrown.
C16_PlannerOutputContract ==
    ret # <<>> =>
        LET raw == feed.raw
            reply == ret[1]
            ValueOf(label) ==
                LET at == {k \in 1..Len(reply.lines) : reply.lines[k].label = label}
                IN  IF at = {} THEN <<>> ELSE reply.lines[CHOOSE k \in at : TRUE].value
        IN  /\ raw.kind # "object" => reply.kind = "fallback"
            /\ raw.kind = "object" =>
                  /\ reply.kind = "plan"
                  /\ raw.fields.title.is = "absent" => ValueOf("title") = PlanDefaults.title
                  /\ raw.fields.datetime.is = "absent" =>
                        ValueOf("datetime") = <<"(unclear)">>
                  /\ raw.fields.location.is = "absent" =>
                        ValueOf("location") = <<"(unclear)">>
                  /\ raw.fields.participants.is = "absent" => ValueOf("participants") = <<>>
                  /\ raw.fields.openQuestions.is = "absent" =>
                        ValueOf("openQuestions") = <<>>
                  /\ raw.fields.pollOptions.is = "absent" => ValueOf("pollOptions") = <<>>

\* ===================================================== signature, alone
\* The characters signatures are made of here, and every signature of up to
\* three of them: among these are a body's digest, every string that differs
\* from it in one byte, and strings shorter and longer than it.
SignatureAlphabet == {"k", "Q", "7", "f", "Z"}

SignaturePool ==
    {UndefinedText, <<>>}
    \cup UNION {[1..n -> SignatureAlphabet] : n \in 1..3}

\* verifySignature is given one raw body and one signature header.
InitVerify ==
    /\ \E rawBody \in RawBodies \cup EventBodies, signature \in SignaturePool :
          feed = [convs |-> {}, texts |-> {}, reads |-> {}, ttlMinutes |-> 0,
                  rawBody |-> rawBody, signature |-> signature]
    /\ summaryLimit = 0 /\ limit = 0 /\ ttlMs = 0 /\ maxConversations = 0
    /\ history = <<>>
    /\ now = 0
    /\ ret = <<>>
    /\ lastOp = NoOp
    /\ log = [c \in Conversations |-> <<>>]
    /\ born = [c \in Conversations |-> 0]
    /\ touch = <<>>
    /\ ops = 0
    /\ ticks = 0
    /\ req = [d \in Deliveries |-> IdleRequest]
    /\ trace = [d \in Deliveries |-> <<>>]

\* service.verifySignature(rawBody, signature) is called and returns.
Verify ==
    /\ Len(ret) < MaxCalls
    /\ ret' = Append(ret, verifySignature(feed.rawBody, feed.signature))
    /\ UNCHANGED <<configVars, storeVars, serviceVars, now, lastOp, ops, ticks>>

NextVerify ==
    \/ Verify
    \/ \E step \in ServiceTickSteps : Tick(step)

SpecVerify == InitVerify /\ [][NextVerify]_vars

\* How many bytes of two strings of one length differ.
Differences(a, b) == Cardinality({k \in 1..Len(a) : a[k] # b[k]})

\* C17: every call of verifySignature returns TRUE exactly when the signature is
\* present and is the digest of the raw body (so FALSE when it is absent, empty,
\* of another length, or differs in a byte, and FALSE for the digest of any other
\* body); a second call on the same input, whenever it is made, returns what the
\* first returned; and a call changes nothing in the store or the deliveries.
C17_SignaturePurity ==
    [][ret' # ret =>
          /\ Last(ret') = (/\ feed.signature # UndefinedText
                           /\ feed.signature = HmacBase64(feed.rawBody))
          /\ ret # <<>> => Last(ret') = Last(ret)
          /\ \A other \in RawBodies \cup EventBodies :
                (other.id # feed.rawBody.id /\ feed.signature = HmacBase64(other))
                    => ~Last(ret')
          /\ UNCHANGED <<configVars, storeVars, serviceVars, now>>]_vars

\* C17 witness: a signature that differs from the digest in its last byte alone
\* was refused twice, the second time at a later time than the first.
C17_Witness ==
    /\ Len(ret) = 2 /\ ret = <<FALSE, FALSE>>
    /\ now > 0
    /\ feed.signature # UndefinedText
    /\ Len(feed.signature) = Len(HmacBase64(feed.rawBody))
    /\ Differences(feed.signature, HmacBase64(feed.rawBody)) = 1
    /\ feed.signature[1] = HmacBase64(feed.rawBody)[1]

\* ============================================================ limits off
\* C18: with CONVERSATION_TTL_MINUTES = 0 a step removes buckets only when the
\* store held more than maxConversations > 0 of them, however old they are; with
\* MAX_CONVERSATIONS = 0 a step removes only buckets idle for more than the TTL;
\* with both 0 no step removes a bucket.
C18_ZeroDisablesLimit ==
    [][LET removed == Keys(history) \ Keys(history')
       IN  /\ (feed.ttlMinutes = 0 /\ removed # {}) =>
                 (maxConversations > 0 /\ Len(history) > maxConversations)
           /\ maxConversations = 0 =>
                 \A c \in removed :
                     /\ feed.ttlMinutes > 0
                     /\ now - MapGet(history, c).lastSeen > ConfiguredTtl
           /\ (feed.ttlMinutes = 0 /\ maxConversations = 0) => removed = {}]_vars

\* C18 witness: with TTL and cap both 0, an operation has just run its cleanup
\* while the store held a bucket for each conversation in use, one of them
\* untouched for more than two minutes, and both buckets are still there.
C18_Witness ==
    /\ feed.ttlMinutes = 0 /\ ttlMs = 0 /\ maxConversations = 0
    /\ lastOp.kind # "none" /\ lastOp.at = now
    /\ Len(lastOp.touchBefore) = Cardinality(feed.convs)
    /\ Keys(history) = feed.convs /\ Cardinality(feed.convs) > 1
    /\ \E c \in Keys(history) : now - MapGet(history, c).lastSeen > 2 * MsPerMinute

\* ========================================================= record, match
\* C19: the step that takes a text message event, command or not, with or
\* without a reply token, first appends its message to the bucket of its
\* conversation: the append is the first thing recorded for the event, the
\* message is the newest entry of the bucket after the step, and it is the newest
\* entry of whatever a handler read from the store in that step (history limit
\* and read limit being positive).
C19_RecordBeforeMatch ==
    [][\A d \in Deliveries :
          (req'[d].idx # req[d].idx /\ IsTextMessage(Taken(d)') /\ limit > 0) =>
              LET c == buildConversationId(Taken(d)')
                  entry == EventEntry(Taken(d)')
                  first == Len(trace[d]) + 1
              IN  /\ Len(trace'[d]) >= first
                  /\ trace'[d][first].what = "add"
                  /\ trace'[d][first].conv = c
                  /\ trace'[d][first].entry = entry
                  /\ c \in Keys(history')
                  /\ Last(MapGet(history', c).items) = entry
                  /\ \A p \in (first + 1)..Len(trace'[d]) :
                        (trace'[d][p].what = "read" /\ summaryLimit > 0) =>
                            /\ trace'[d][p].read # <<>>
                            /\ Last(trace'[d][p].read) = entry]_vars

\* C19 witness: a /summary with a reply token was appended and then read back by
\* its own handler, which found it as the newest entry.
C19_Witness ==
    \E d \in Deliveries : \E i \in 1..Len(req[d].events) :
        \E a \in Places(d, "add", i), r \in Places(d, "read", i) :
            /\ a < r
            /\ MatchesWord(trace[d][a].entry.text, SummaryCommand)
            /\ Len(trace[d][r].read) > 1
            /\ Last(trace[d][r].read) = trace[d][a].entry

\* =============================================================== routing
EventCommands == { <<"/","e","v","e","n","t">>, <<"/","p","o","l","l">> }

\* The class of a trimmed text by the ordered pattern tests of the
\* specification: Help, Fortune, Summary, Research, EventPlan, else None.
ClassOf(text) ==
    IF MatchesWord(text, HelpCommand) THEN "help"
    ELSE IF \E lit \in FortuneCommands : MatchesThenSpaceOrEnd(text, lit) THEN "fortune"
    ELSE IF MatchesWord(text, SummaryCommand) THEN "summary"
    ELSE IF MatchesWord(text, ResearchCommand) THEN "research"
    ELSE IF \E lit \in EventCommands : MatchesWord(text, lit) THEN "eventplan"
    ELSE "none"

\* The handlers that have made a call for event i of delivery d, told by the
\* prompt they built or the fixed text they replied.
HandlersRun(d, i) ==
    {trace[d][p].prompt.handler : p \in Places(d, "generate", i)}
    \cup {"help" : p \in {q \in Places(d, "reply", i) : trace[d][q].text = Reply(HELP_TEXT)}}
    \cup {"summary" : p \in {q \in Places(d, "reply", i) :
                               trace[d][q].text = Reply(NoMessagesText)}}
    \cup {"research" : p \in {q \in Places(d, "reply", i) :
                                trace[d][q].text = Reply(ResearchUsage)}}

\* C20, as stated: for a text message with a reply token that the loop has taken,
\* the handler of the class of its trimmed text has run and no other; for the
\* class None no backend call and no reply is made.
C20_CommandRouting ==
    \A d \in Deliveries : \A i \in 1..req[d].idx :
        (IsTextMessage(req[d].events[i]) /\ ~NoReplyToken(req[d].events[i])) =>
            LET class == ClassOf(EventEntry(req[d].events[i]).text)
            IN  /\ class # "none" => HandlersRun(d, i) = {class}
                /\ class = "none" => Calls(d, i) = {}

\* ========================================================= read refreshes
\* Bucket c of the store is idle for more than the configured TTL.
Expired(c) == feed.ttlMinutes > 0 /\ now - MapGet(history, c).lastSeen > ConfiguredTtl

EvictedByRead(c) ==
    \E v \in 1..Len(lastOp'.evicted) : lastOp'.evicted[v].victim.key = c

FallbackOf(handler) ==
    CASE handler = "fortune" -> Reply(FortunePrefix \o FortuneFallback)
      [] handler = "summary" -> Reply(SummaryFallback)
      [] OTHER -> Reply(ResearchFallback)

\* The handler that made the backend call of event i of delivery d.
HandlerOf(d, i) ==
    trace[d][CHOOSE g \in Places(d, "generate", i) : TRUE].prompt.handler

\* C22: whenever the backend answers the fortune, summary or research handler
\* with empty or whitespace-only text, the reply that follows is that handler's
\* fixed fallback (behind the fortune prefix for the fortune handler); and no reply
\* recorded anywhere has an empty or whitespace-only text.
C22_EmptyOutputFallback ==
    \A d \in Deliveries : \A p \in 1..Len(trace[d]) :
        /\ (trace[d][p].what = "answer" /\ Trim(trace[d][p].text.body) = <<>>) =>
              /\ p < Len(trace[d])
              /\ trace[d][p + 1].what = "reply"
              /\ trace[d][p + 1].i = trace[d][p].i
              /\ Places(d, "generate", trace[d][p].i) # {}
              /\ trace[d][p + 1].text.body = FallbackOf(HandlerOf(d, trace[d][p].i)).body
        /\ trace[d][p].what = "reply" => Trim(trace[d][p].text.body) # <<>>

\* C22 witness: the backend answered whitespace to a fortune request, and the reply
\* then sent is the fortune prefix followed by the fortune fallback.
C22_Witness ==
    \E d \in Deliveries : \E p \in 1..Len(trace[d]) :
        /\ trace[d][p].what = "answer"
        /\ trace[d][p].text.body = <<" ">>
        /\ HandlerOf(d, trace[d][p].i) = "fortune"
        /\ p < Len(trace[d])
        /\ trace[d][p + 1].what = "reply"
        /\ trace[d][p + 1].text = Reply(FortunePrefix \o FortuneFallback)


\* ========================================================== capacity slack
\* The workloads of SpecStoreCapacity: a cap of k conversations under traffic from
\* k + 2 of them, with a TTL.
CapacityWorkloads ==
    { [limit |-> 1, ttlMinutes |-> 1, cap |-> 1,
       convs |-> Conversations, texts |-> {<<"a">>}, reads |-> {1}] }

StoreInitCapacity ==
    /\ \E w \in CapacityWorkloads :
          /\ limit = w.limit
          /\ ttlMs = TtlMsOf(w.ttlMinutes)
          /\ maxConversations = w.cap
          /\ feed = [convs |-> w.convs, texts |-> w.texts, reads |-> w.reads,
                     ttlMinutes |-> w.ttlMinutes]
    /\ summaryLimit = 0
    /\ history = <<>>
    /\ now = 0
    /\ ret = <<>>
    /\ lastOp = NoOp
    /\ log = [c \in Conversations |-> <<>>]
    /\ born = [c \in Conversations |-> 0]
    /\ touch = <<>>
    /\ ops = 0
    /\ ticks = 0
    /\ req = [d \in Deliveries |-> IdleRequest]
    /\ trace = [d \in Deliveries |-> <<>>]

SpecStoreCapacity == StoreInitCapacity /\ [][StoreNext]_vars

\* The store operation just made was an add that created its bucket.
CreatedBucket == lastOp'.kind = "add" /\ born'[lastOp'.conv] = 1

\* C23: with maxConversations = k > 0, after every store operation the store
\* holds at most k + 1 buckets; at most k after a getRecent; k + 1 only after an
\* add that created its bucket, the other k being the buckets its cleanup left;
\* and a store holding k + 1 buckets loses its oldest bucket at the start of the
\* next operation, so that at most k of the buckets held before remain.
C23_CapacitySlack ==
    [][(ops' # ops /\ maxConversations > 0) =>
          LET k == maxConversations
          IN  /\ Len(history') <= k + 1
              /\ lastOp'.kind = "getRecent" => Len(history') <= k
              /\ Len(history') = k + 1 =>
                    /\ CreatedBucket
                    /\ history'[k + 1].key = lastOp'.conv
                    /\ lastOp'.conv \notin
                           Keys(cleanup(history, now, ttlMs, maxConversations))
              /\ Len(history') - (IF CreatedBucket THEN 1 ELSE 0) <= k
              /\ Len(history) = k + 1 =>
                    \/ history[1].key \notin Keys(history')
                    \/ CreatedBucket /\ lastOp'.conv = history[1].key]_vars

\* C23 witness: a store over its cap by one, left so by an add whose cleanup had
\* first deleted the excess bucket of the add before it.
C23_Witness ==
    /\ maxConversations > 0
    /\ Len(history) = maxConversations + 1
    /\ lastOp.kind = "add"
    /\ lastOp.evicted # <<>>
    /\ Len(lastOp.touchBefore) >= maxConversations + 1
    /\ \A i \in 1..Len(lastOp.touchBefore) : lastOp.touchBefore[i].conv # lastOp.conv


\* ================================================== atomic record and read
\* What a handler embeds of the entries it read: handleSummary drops the /summary
\* invocations, handleResearch keeps everything.
Embedded(handler, got) ==
    IF handler = "summary"
    THEN SelectSeq(got, LAMBDA e : ~MatchesWord(e.text, SummaryCommand))
    ELSE got

\* The `limit` argument the handler passes to getRecent.
ReadSize(handler) == IF handler = "summary" THEN summaryLimit ELSE ResearchHistoryLimit

\* C24: with deliveries interleaved, the step in which a delivery takes a text
\* message whose handler reads history is that delivery's alone: its append is
\* directly followed by its read, no other delivery moves, the bucket afterwards
\* is the bucket the store held before the step with the message appended, and
\* the entries read are the newest of that bucket, the message itself last (history
\* limit and read size at least 1). The prompt of every summary or research
\* backend call in flight is built from the entries read in that step, whatever
\* other deliveries have appended since.
C24_AtomicRecordAndRead ==
    [][/\ \A d \in Deliveries :
             (req'[d].idx # req[d].idx /\ IsTextMessage(Taken(d)')) =>
                 LET c == buildConversationId(Taken(d)')
                     entry == EventEntry(Taken(d)')
                     handler == Route(entry.text)
                     first == Len(trace[d]) + 1
                     kept == cleanup(history, now, ttlMs, maxConversations)
                     prior == IF c \in Keys(kept) THEN MapGet(kept, c).items ELSE <<>>
                     own == LastN(Append(prior, entry), limit)
                 IN  \A p \in first..Len(trace'[d]) :
                        trace'[d][p].what = "read" =>
                            /\ p = first + 1
                            /\ trace'[d][first].what = "add"
                            /\ trace'[d][first].entry = entry
                            /\ \A e \in Deliveries \ {d} :
                                  trace'[e] = trace[e] /\ req'[e] = req[e]
                            /\ c \in Keys(history')
                            /\ MapGet(history', c).items = own
                            /\ trace'[d][p].read = LastN(own, ReadSize(handler))
                            /\ (limit >= 1 /\ ReadSize(handler) >= 1) =>
                                  Last(trace'[d][p].read) = entry
       /\ \A d \in Deliveries : \A call \in req'[d].pending :
             (call.stage = "backend" /\ call.handler \in {"summary", "research"}) =>
                 \E p \in 1..Len(trace'[d]) :
                     /\ trace'[d][p].what = "read"
                     /\ trace'[d][p].i = call.i
                     /\ call.prompt.history =
                            formatMessages(Embedded(call.handler, trace'[d][p].read))]_vars

\* C24 witness: a research call is in flight whose prompt ends with its own
\* message, while the bucket of its conversation has since received a message of
\* the other delivery and no longer ends with that message.
C24_Witness ==
    \E d \in Deliveries : \E call \in req[d].pending : \E p \in 1..Len(trace[d]) :
        /\ call.stage = "backend" /\ call.handler = "research"
        /\ trace[d][p].what = "read" /\ trace[d][p].i = call.i
        /\ Len(trace[d][p].read) >= 2
        /\ call.prompt.history = formatMessages(trace[d][p].read)
        /\ trace[d][p].conv \in Keys(history)
        /\ Last(trace[d][p].read) = EventEntry(req[d].events[call.i])
        /\ Last(Bucket(trace[d][p].conv).items) # Last(trace[d][p].read)
        /\ \E e \in Deliveries \ {d} : \E q \in 1..Len(trace[e]) :
              /\ trace[e][q].what = "add"
              /\ trace[e][q].conv = trace[d][p].conv
              /\ trace[e][q].entry = Last(Bucket(trace[d][p].conv).items)

====
